---- MODULE Spec2Model ----
(***************************************************************************)
(* TaskFlow service worker (src/sw.js): the versioned caches, the install  *)
(* and activate handlers, the fetch router, the message channel and the    *)
(* sync, periodicsync, push and notificationclick handlers.                *)
(*                                                                         *)
(* Spec drives the lifecycle, the router and the message channel; SpecWork *)
(* drives the message channel alone on the activated worker, with several  *)
(* snapshot writes in flight; SpecEvents drives the deferred-work events   *)
(* on the activated worker.                                                *)
(*                                                                         *)
(* A URL is the sequence of its path segments: "/api/tasks" is             *)
(* <<"api","tasks">>, "/index.html" is <<"index.html">>, "/" is <<"">>.    *)
(* A response is a record [url, status, body]: url is the URL the response *)
(* was fetched from (<<>> for a response built by `new Response(...)`),    *)
(* body is the version of the content the network served (0 for content    *)
(* that predates this worker) or the number of a task snapshot.            *)
(***************************************************************************)
EXTENDS Integers, Sequences, FiniteSets, TLC

\* ------------------------------------------------------------ bounds
\* caches already in the store when the worker is installed
MaxInitCaches == 2
\* versions of the content the network can serve
MaxVer == 1
\* detached (un-awaited) cache operations in flight at once
MaxPending == 1
\* times the activate event is dispatched
MaxActivations == 2
\* snapshot writes in flight at once when only the message channel is driven
MaxWrites == 2
\* last of the task mappings SnapshotOf lists that the pages send
MaxPayload == 3
\* window clients of the origin
MaxClients == 3

\* ------------------------------------------------------------ constants of sw.js
CACHE_NAME == "taskflow-v1.0.0"
DATA_CACHE_NAME == "taskflow-data-v1.0.0"

Root == <<"">>
IndexHtml == <<"index.html">>
FILES_TO_CACHE ==
  << Root, IndexHtml, <<"static", "js", "bundle.js">>, <<"static", "css", "main.css">>,
     <<"manifest.json">>, <<"favicon.ico">> >>

\* the version of the shell assets deployed with this worker (v1.0.0); the
\* network serves content of the versions 1..MaxVer, older caches hold 0
BuildVersion == 1

\* the status the API branch caches
StatusOK == 200

\* the key of the task snapshot
TasksData == <<"tasks-data">>

\* ------------------------------------------------------------ the environment
\* generations left behind by earlier versions of the worker
StaleNames == {"taskflow-v0.9.0", "taskflow-data-v0.9.0"}
AllNames == {CACHE_NAME, DATA_CACHE_NAME} \cup StaleNames

ApiTasks == <<"api", "tasks">>
About == <<"about">>

Range(s) == {s[i] : i \in 1..Len(s)}

FilesSet == Range(FILES_TO_CACHE)
URLs == FilesSet \cup {ApiTasks, TasksData, About}

\* the requests the pages issue: [url, mode]
Requests ==
  { [url |-> ApiTasks, mode |-> "cors"],
    [url |-> IndexHtml, mode |-> "navigate"],
    [url |-> About, mode |-> "navigate"],
    [url |-> TasksData, mode |-> "cors"] }

NoResponse == [url |-> <<"-">>, status |-> 0, body |-> 0]
NetResponse(u, s, v) == [url |-> u, status |-> s, body |-> v]
NoReq == [url |-> <<"-">>, mode |-> "-", cat |-> "-", stored |-> FALSE]

\* no answer delivered yet for the current fetch event
NoAnswer ==
  [url |-> <<"-">>, mode |-> "-", cat |-> "-", from |-> "-", gen |-> "none",
   resp |-> NoResponse, net |-> 0, stored |-> FALSE, outcome |-> "none",
   netResp |-> NoResponse]

EmptyCache == [u \in URLs |-> NoResponse]

\* what a cache left by an earlier version holds: the old shell (and, by
\* coincidence, an entry for an API URL) in a shell generation, old API
\* responses in a data generation
OldContent(n) ==
  [u \in URLs |->
     IF n \in {CACHE_NAME, "taskflow-v0.9.0"}
       THEN IF u \in {IndexHtml, ApiTasks} THEN NetResponse(u, StatusOK, 0) ELSE NoResponse
       ELSE IF u = ApiTasks THEN NetResponse(u, StatusOK, 0) ELSE NoResponse]

\* the stores the worker can find at installation: up to MaxInitCaches
\* caches, of any names, created in any order
InitialStores ==
  {s \in UNION {[1..k -> AllNames] : k \in 0..MaxInitCaches} :
     Cardinality(Range(s)) = Len(s)}

\* ------------------------------------------------------------ tasks and time
\* An instant is a number of milliseconds since 2024-01-01T00:00 (local time
\* is taken to be UTC, so that a date-only string and a date-time string
\* are parsed on the same scale). At(d, h, m) is 2024-01-d at h:m.
MsPerDay == 86400000
At(d, h, m) == (d - 1) * MsPerDay + (h * 60 + m) * 60000

\* the instants `new Date()` returns when a periodic pass runs
Nows == {At(5, 0, 0), At(10, 0, 0), At(10, 12, 0)}

\* a task record: dueDate is <<>> for null and <<t>> for the instant t;
\* NullTask is a record that is not an object (null), on which reading a
\* property throws
Task(id, due, completed) ==
  [valid |-> TRUE, id |-> id, dueDate |-> due, completed |-> completed]
NullTask == [valid |-> FALSE, id |-> 0, dueDate |-> <<>>, completed |-> FALSE]

\* the task mappings the pages send, as the list of their groups in key
\* order; payload 0 is a message without `tasks` (undefined)
SnapshotOf(s) ==
  CASE s = 1 -> << [key |-> "work", tasks |-> <<Task(1, <<At(1, 0, 0)>>, FALSE)>>] >>
    [] s = 2 -> << [key |-> "work",
                    tasks |-> <<Task(1, <<At(10, 23, 59)>>, FALSE),
                                Task(2, <<At(9, 0, 0)>>, FALSE),
                                Task(3, <<At(12, 0, 0)>>, FALSE)>>],
                   [key |-> "home",
                    tasks |-> <<Task(4, <<>>, FALSE),
                                Task(5, <<At(9, 0, 0)>>, TRUE),
                                Task(6, <<At(10, 0, 0)>>, FALSE)>>] >>
    [] s = 3 -> << [key |-> "work",
                    tasks |-> <<Task(1, <<At(1, 0, 0)>>, FALSE), NullTask,
                                Task(2, <<At(1, 0, 0)>>, FALSE)>>] >>
    [] OTHER -> << >>

\* ------------------------------------------------------------ clients
\* Client.url is the absolute URL of the page: the origin, then the path
Origin == "https://origin"
Abs(path) == <<Origin>> \o path

\* the window clients of the origin: the first shows the root view
Clients ==
  {[id |-> i, url |-> IF i = 1 THEN Abs(Root) ELSE Abs(About)] : i \in 1..MaxClients}

\* what clients.matchAll can resolve with: some of the clients, in some order
ClientLists ==
  {l \in UNION {[1..k -> Clients] : k \in 0..MaxClients} : Cardinality(Range(l)) = Len(l)}

\* what the handler run in this step did: the event (handler, tag or action,
\* the instant and cache.match result of a periodic pass, the clients
\* matchAll resolved with), the store before it, and its effects
\* (showNotification, postMessage, close, focus, openWindow calls, the error
\* logged by a catch, how the promise given to waitUntil settled)
NoOut ==
  [handler |-> "-", tag |-> "-", now |-> 0, snap |-> NoResponse, clients |-> <<>>,
   before |-> <<>>, notified |-> <<>>, posted |-> <<>>, closed |-> FALSE,
   focused |-> <<>>, opened |-> <<>>, error |-> "none", settled |-> "-"]

VARIABLES
  cacheNames,     \* CacheStorage: the names of the caches, in creation order
  entries,        \* entries[name][url]: the response stored, or NoResponse
  lifecycle,      \* "installing", "installed", "activating", "activated", "redundant"
  installPc,      \* position of the install handler's promise chain
  activatePc,     \* position of the activate handler's promise chain
  toDelete,       \* caches.delete calls of the sweep that have not completed
  activations,    \* activate events dispatched
  deleted,        \* names of the caches the sweep has deleted
  skipWaiting,    \* the skip-waiting flag, set by self.skipWaiting()
  claimed,        \* self.clients.claim() has been called
  req,            \* the request whose network fetch is in flight, or NoReq
  pending,        \* detached cache operations no handler waits for
  lastSnapshot,   \* <<s>>: s is the snapshot of the last CACHE_TASK_DATA message
                  \* received and no snapshot write was lost since; <<>> otherwise
  result,         \* the answer respondWith delivers in this step, or NoAnswer
  out             \* what the deferred-work handler run in this step did, or NoOut

vars == <<cacheNames, entries, lifecycle, installPc, activatePc, toDelete, activations,
          deleted, skipWaiting, claimed, req, pending, lastSnapshot, result, out>>

\* ------------------------------------------------------------ the Cache API
Has(names, n) == n \in Range(names)

\* caches.open(n): the cache named n, created when absent
Open(names, n) == IF Has(names, n) THEN names ELSE Append(names, n)

\* caches.delete(n)
Delete(names, n) == SelectSeq(names, LAMBDA x : x # n)

\* cache.put(u, r) on the cache named n: the entry under u is replaced
PutAlone(names, ents, n, u, r) ==
  IF Has(names, n) THEN [ents EXCEPT ![n] = [EmptyCache EXCEPT ![u] = r]] ELSE ents

Put(names, ents, n, u, r) ==
  IF Has(names, n) THEN [ents EXCEPT ![n][u] = r] ELSE ents

\* cache.match(u) on the cache named n
CacheMatch(names, ents, n, u) ==
  IF Has(names, n) THEN ents[n][u] ELSE NoResponse

\* caches.match(u): the entry of the first cache, in creation order, that
\* holds one under u, with the name of that cache
CachesMatch(names, ents, u) ==
  LET hits == {i \in 1..Len(names) : ents[names[i]][u] # NoResponse}
  IN IF hits = {}
       THEN [gen |-> "none", resp |-> NoResponse]
       ELSE LET i == CHOOSE k \in hits : \A j \in hits : k <= j
            IN [gen |-> names[i], resp |-> ents[names[i]][u]]

\* cache.addAll(FILES_TO_CACHE) on the cache named n: every file is fetched
\* (failed: the files whose fetch fails or answers a non-ok status) and the
\* responses are stored together, or nothing is stored
AddAllPartial(ents, n, failed) ==
  [ents EXCEPT ![n] = [u \in URLs |->
     IF u \in FilesSet \ failed THEN NetResponse(u, StatusOK, BuildVersion) ELSE @[u]]]

AddAll(ents, n, failed) ==
  IF failed = {}
    THEN [ents EXCEPT ![n] = [u \in URLs |->
            IF u \in FilesSet THEN NetResponse(u, StatusOK, BuildVersion) ELSE @[u]]]
    ELSE ents

\* ------------------------------------------------------------ install (sw.js 17-31)
Init ==
  /\ cacheNames \in InitialStores
  /\ entries = [n \in AllNames |-> IF Has(cacheNames, n) THEN OldContent(n) ELSE EmptyCache]
  /\ lifecycle = "installing"
  /\ installPc = "start"
  /\ activatePc = "idle"
  /\ toDelete = {}
  /\ activations = 0
  /\ deleted = {}
  /\ skipWaiting = FALSE
  /\ claimed = FALSE
  /\ req = NoReq
  /\ pending = <<>>
  /\ lastSnapshot = <<>>
  /\ result = NoAnswer
  /\ out = NoOut

\* caches.open(CACHE_NAME)
InstallOpen ==
  /\ lifecycle = "installing"
  /\ installPc = "start"
  /\ cacheNames' = Open(cacheNames, CACHE_NAME)
  /\ installPc' = "opened"
  /\ UNCHANGED <<entries, lifecycle, activatePc, toDelete, activations, deleted,
                 skipWaiting, claimed, req, pending>>
  /\ result' = NoAnswer
  /\ out' = NoOut
  /\ UNCHANGED lastSnapshot

\* cache.addAll(FILES_TO_CACHE); a rejection rejects the promise given to
\* waitUntil, the installation fails and the worker is discarded
InstallAddAll ==
  /\ installPc = "opened"
  /\ \E failed \in SUBSET FilesSet :
       /\ entries' = AddAll(entries, CACHE_NAME, failed)
       /\ IF failed = {}
            THEN installPc' = "added" /\ lifecycle' = lifecycle
            ELSE installPc' = "failed" /\ lifecycle' = "redundant"
  /\ UNCHANGED <<cacheNames, activatePc, toDelete, activations, deleted,
                 skipWaiting, claimed, req, pending>>
  /\ result' = NoAnswer
  /\ out' = NoOut
  /\ UNCHANGED lastSnapshot

\* self.skipWaiting(), after which the install is complete
InstallSkipWaiting ==
  /\ installPc = "added"
  /\ skipWaiting' = TRUE
  /\ installPc' = "done"
  /\ lifecycle' = "installed"
  /\ UNCHANGED <<cacheNames, entries, activatePc, toDelete, activations, deleted,
                 claimed, req, pending>>
  /\ result' = NoAnswer
  /\ out' = NoOut
  /\ UNCHANGED lastSnapshot

\* ------------------------------------------------------------ activate (sw.js 34-52)
\* the names the sweep deletes
SweepFirstOnly(names) ==
  LET stale == {i \in 1..Len(names) :
                  names[i] # CACHE_NAME /\ names[i] # DATA_CACHE_NAME}
  IN {names[i] : i \in {k \in stale : \A j \in stale : k <= j}}

SweepSkipsLast(names) ==
  {names[i] : i \in {k \in 1..(Len(names) - 1) :
                       names[k] # CACHE_NAME /\ names[k] # DATA_CACHE_NAME}}

SweepEither(names) ==
  {n \in Range(names) : n # CACHE_NAME \/ n # DATA_CACHE_NAME}

SweepTargets(names) ==
  {n \in Range(names) : n # CACHE_NAME /\ n # DATA_CACHE_NAME}

\* the activate event: the handler starts caches.keys() and calls
\* self.clients.claim() before it returns. The platform dispatches it once
\* the install is complete; it is dispatched again, with no install in
\* between, up to MaxActivations times in all.
ActivateDispatch ==
  /\ \/ lifecycle = "installed"
     \/ lifecycle = "activated" /\ activatePc = "done"
  /\ activations < MaxActivations
  /\ activations' = activations + 1
  /\ lifecycle' = IF lifecycle = "installed" THEN "activating" ELSE lifecycle
  /\ activatePc' = "keys"
  /\ claimed' = TRUE
  /\ UNCHANGED <<cacheNames, entries, installPc, toDelete, deleted, skipWaiting,
                 req, pending>>
  /\ result' = NoAnswer
  /\ out' = NoOut
  /\ UNCHANGED lastSnapshot

\* caches.keys() resolves: caches.delete is called for every stale name
ActivateKeys ==
  /\ activatePc = "keys"
  /\ toDelete' = SweepTargets(cacheNames)
  /\ activatePc' = "deleting"
  /\ UNCHANGED <<cacheNames, entries, lifecycle, installPc, activations, deleted,
                 skipWaiting, claimed, req, pending>>
  /\ result' = NoAnswer
  /\ out' = NoOut
  /\ UNCHANGED lastSnapshot

\* one caches.delete(n) completes
ActivateDelete(n) ==
  /\ activatePc = "deleting"
  /\ n \in toDelete
  /\ cacheNames' = Delete(cacheNames, n)
  /\ entries' = [entries EXCEPT ![n] = EmptyCache]
  /\ toDelete' = toDelete \ {n}
  /\ deleted' = deleted \cup {n}
  /\ UNCHANGED <<lifecycle, installPc, activatePc, activations, skipWaiting, claimed,
                 req, pending>>
  /\ result' = NoAnswer
  /\ out' = NoOut
  /\ UNCHANGED lastSnapshot

\* Promise.all resolves: the activation is complete
ActivateDone ==
  /\ activatePc = "deleting"
  /\ toDelete = {}
  /\ activatePc' = "done"
  /\ lifecycle' = "activated"
  /\ UNCHANGED <<cacheNames, entries, installPc, toDelete, activations, deleted,
                 skipWaiting, claimed, req, pending>>
  /\ result' = NoAnswer
  /\ out' = NoOut
  /\ UNCHANGED lastSnapshot

\* ------------------------------------------------------------ fetch (sw.js 55-89)
\* url.includes('/' + seg + '/'): seg is a segment of the path followed by
\* another one
Includes(url, seg) == \E i \in 1..(Len(url) - 1) : url[i] = seg

\* the branch the fetch listener takes
ClassifyShellOnly(url) == "SHELL"

Classify(url) == IF Includes(url, "api") THEN "DATA" ELSE "SHELL"

\* `response || fetch(...)`: a cached response is returned as it is
ShellMiss(m) == FALSE

ShellHit(m) == m.resp # NoResponse

\* `response.status === 200`
ShouldCacheAny(resp) == TRUE

ShouldCache(resp) == resp.status = StatusOK

\* the API branch's catch: cache.match(event.request) on the data cache
DataFallbackAnyCache(names, ents, u) == CachesMatch(names, ents, u)

DataFallback(names, ents, u) ==
  LET r == CacheMatch(names, ents, DATA_CACHE_NAME, u)
  IN [gen |-> IF r = NoResponse THEN "none" ELSE DATA_CACHE_NAME, resp |-> r]

\* the shell branch's catch: the cached index.html for a navigation,
\* undefined otherwise
ShellFallbackAlways(mode, names, ents) == CachesMatch(names, ents, IndexHtml)

ShellFallback(mode, names, ents) ==
  IF mode = "navigate"
    THEN CachesMatch(names, ents, IndexHtml)
    ELSE [gen |-> "none", resp |-> NoResponse]

\* what fetch(event.request) can do: reject, or resolve with a response
NetOutcomes(u) ==
  {[ok |-> FALSE, resp |-> NoResponse]}
    \cup {[ok |-> TRUE, resp |-> NetResponse(u, st, v)] : st \in {StatusOK, 404}, v \in 1..MaxVer}

Answer(r, from, gen, resp, net, stored, outcome, netResp) ==
  [url |-> r.url, mode |-> r.mode, cat |-> r.cat, from |-> from, gen |-> gen,
   resp |-> resp, net |-> net, stored |-> stored, outcome |-> outcome,
   netResp |-> netResp]

\* the fetch event, up to the first network fetch: the API branch opens the
\* data cache and fetches; the shell branch looks the request up in the
\* caches and answers a hit at once. The platform holds fetch events back
\* until the worker is activated.
FetchStart(r) ==
  /\ lifecycle = "activated"
  /\ req = NoReq
  /\ LET cat == Classify(r.url)
         m == CachesMatch(cacheNames, entries, r.url)
         has == \E n \in Range(cacheNames) : entries[n][r.url] # NoResponse
         rq == [url |-> r.url, mode |-> r.mode, cat |-> cat, stored |-> has]
     IN IF cat = "DATA"
          THEN /\ cacheNames' = Open(cacheNames, DATA_CACHE_NAME)
               /\ req' = rq
               /\ result' = NoAnswer
          ELSE IF ShellHit(m)
            THEN /\ result' = Answer(rq, "cache", m.gen, m.resp, 0, has, "none", NoResponse)
                 /\ UNCHANGED <<cacheNames, req>>
            ELSE /\ req' = rq
                 /\ result' = NoAnswer
                 /\ UNCHANGED cacheNames
  /\ UNCHANGED <<entries, lifecycle, installPc, activatePc, toDelete, activations,
                 deleted, skipWaiting, claimed, pending>>
  /\ out' = NoOut
  /\ UNCHANGED lastSnapshot

\* the network fetch settles and the handler answers
FetchSettle(o) ==
  /\ req # NoReq
  /\ o \in NetOutcomes(req.url)
  /\ IF req.cat = "DATA"
       THEN IF o.ok
              THEN /\ ShouldCache(o.resp) => Len(pending) < MaxPending
                   /\ pending' = IF ShouldCache(o.resp)
                                   THEN Append(pending, [op |-> "put", key |-> req.url,
                                                         resp |-> o.resp])
                                   ELSE pending
                   /\ result' = Answer(req, "network", "none", o.resp, 1,
                                       CacheMatch(cacheNames, entries, DATA_CACHE_NAME, req.url)
                                         # NoResponse,
                                       "ok", o.resp)
              ELSE LET c == DataFallback(cacheNames, entries, req.url)
                   IN /\ result' = Answer(req, IF c.resp = NoResponse THEN "absent" ELSE "cache",
                                          c.gen, c.resp, 1,
                                          CacheMatch(cacheNames, entries, DATA_CACHE_NAME, req.url)
                                            # NoResponse,
                                          "fail", NoResponse)
                      /\ UNCHANGED pending
       ELSE IF o.ok
              THEN /\ result' = Answer(req, "network", "none", o.resp, 1, req.stored,
                                       "ok", o.resp)
                   /\ UNCHANGED pending
              ELSE LET f == ShellFallback(req.mode, cacheNames, entries)
                   IN /\ result' = Answer(req, IF f.resp = NoResponse THEN "absent"
                                               ELSE "fallback",
                                          f.gen, f.resp, 1, req.stored, "fail", NoResponse)
                      /\ UNCHANGED pending
  /\ req' = NoReq
  /\ UNCHANGED <<cacheNames, entries, lifecycle, installPc, activatePc, toDelete,
                 activations, deleted, skipWaiting, claimed>>
  /\ out' = NoOut
  /\ UNCHANGED lastSnapshot

\* ------------------------------------------------------------ message (sw.js 181-192)
Messages ==
  {[type |-> "SKIP_WAITING", tasks |-> 0], [type |-> "CACHE_TASK_DATA", tasks |-> 1]}

\* new Response(JSON.stringify(event.data.tasks)): the body is the JSON text
\* of the mapping, named by its number; JSON.stringify(undefined) is
\* undefined and the body is empty (0)
SnapshotResponse(tasks) == NetResponse(<<>>, StatusOK, tasks)

\* the message event: skipWaiting is called, or caches.open is started and
\* nothing waits for it. cap bounds the detached operations in flight.
MessageK(m, cap) ==
  /\ lifecycle # "redundant"
  /\ skipWaiting' = (skipWaiting \/ m.type = "SKIP_WAITING")
  /\ IF m.type = "CACHE_TASK_DATA"
       THEN /\ Len(pending) < cap
            /\ pending' = Append(pending, [op |-> "open", key |-> TasksData,
                                           resp |-> SnapshotResponse(m.tasks)])
            /\ lastSnapshot' = <<m.tasks>>
       ELSE UNCHANGED <<pending, lastSnapshot>>
  /\ UNCHANGED <<cacheNames, entries, lifecycle, installPc, activatePc, toDelete,
                 activations, deleted, claimed, req>>
  /\ result' = NoAnswer
  /\ out' = NoOut

Message(m) == MessageK(m, MaxPending)

\* a detached operation on the data cache makes its next step:
\* caches.open(DATA_CACHE_NAME) resolves and cache.put is called, or a
\* cache.put completes. The operations complete in any order.
PendingStep(i) ==
  /\ i \in 1..Len(pending)
  /\ IF pending[i].op = "open"
       THEN /\ cacheNames' = Open(cacheNames, DATA_CACHE_NAME)
            /\ pending' = [pending EXCEPT ![i].op = "put"]
            /\ UNCHANGED entries
       ELSE /\ entries' = Put(cacheNames, entries, DATA_CACHE_NAME, pending[i].key,
                              pending[i].resp)
            /\ pending' = SubSeq(pending, 1, i - 1) \o SubSeq(pending, i + 1, Len(pending))
            /\ UNCHANGED cacheNames
  /\ UNCHANGED <<lifecycle, installPc, activatePc, toDelete, activations, deleted,
                 skipWaiting, claimed, req>>
  /\ result' = NoAnswer
  /\ out' = NoOut
  /\ UNCHANGED lastSnapshot

\* ------------------------------------------------------------ keep-alive
\* a promise given to event.waitUntil or event.respondWith has not settled
KeepAlive ==
  \/ lifecycle = "installing" /\ installPc # "failed"
  \/ activatePc \in {"keys", "deleting"}
  \/ req # NoReq

SnapshotWrites(ops) == {i \in 1..Len(ops) : ops[i].key = TasksData}

\* the runtime stops the idle worker: the detached operations are abandoned
Terminate ==
  /\ ~KeepAlive
  /\ pending # <<>>
  /\ pending' = <<>>
  /\ lastSnapshot' = IF SnapshotWrites(pending) = {} THEN lastSnapshot ELSE <<>>
  /\ UNCHANGED <<cacheNames, entries, lifecycle, installPc, activatePc, toDelete,
                 activations, deleted, skipWaiting, claimed, req>>
  /\ result' = NoAnswer
  /\ out' = NoOut

\* ------------------------------------------------------------ sync (sw.js 92-117)
\* `event.tag === 'background-sync-tasks'`
SyncTag(tag) == tag = "background-sync-tasks"

\* clients.forEach(client => client.postMessage({type: 'SYNC_COMPLETE', ...}))
SyncFirstOnly(cl) ==
  [i \in 1..(IF cl = <<>> THEN 0 ELSE 1) |-> [client |-> cl[i].id, type |-> "SYNC_COMPLETE"]]

SyncMessages(cl) == [i \in 1..Len(cl) |-> [client |-> cl[i].id, type |-> "SYNC_COMPLETE"]]

\* the try/catch of syncTasks and of checkTaskReminders: the async function
\* resolves whether or not the body threw
PassSettlesRethrow(error) == IF error = "none" THEN "resolved" ELSE "rejected"

PassSettles(error) == "resolved"

\* the sync event. cl is what clients.matchAll() resolves with; fault is
\* "matchAll" when it rejects instead.
Sync(tag, cl, fault) ==
  /\ lifecycle = "activated"
  /\ fault \in {"none", "matchAll"}
  /\ out' = IF SyncTag(tag)
              THEN IF fault = "none"
                     THEN [NoOut EXCEPT !.handler = "sync", !.tag = tag, !.clients = cl,
                                        !.before = <<cacheNames, entries>>,
                                        !.posted = SyncMessages(cl),
                                        !.settled = PassSettles("none")]
                     ELSE [NoOut EXCEPT !.handler = "sync", !.tag = tag,
                                        !.before = <<cacheNames, entries>>,
                                        !.error = fault,
                                        !.settled = PassSettles(fault)]
              ELSE [NoOut EXCEPT !.handler = "sync", !.tag = tag,
                                 !.before = <<cacheNames, entries>>]
  /\ result' = NoAnswer
  /\ UNCHANGED <<cacheNames, entries, lifecycle, installPc, activatePc, toDelete,
                 activations, deleted, skipWaiting, claimed, req, pending, lastSnapshot>>

\* ------------------------------------------------------------ periodicsync (sw.js 195-233)
\* `event.tag === 'task-reminders'`
PeriodicTag(tag) == tag = "task-reminders"

\* Object.values(tasks): the groups of the mapping, in key order
Values(mapping) == [i \in 1..Len(mapping) |-> mapping[i].tasks]

\* Array.prototype.flat(): the groups' tasks, in order
RECURSIVE Flat(_)
Flat(groups) == IF groups = <<>> THEN <<>> ELSE Head(groups) \o Flat(Tail(groups))

\* Math.ceil(timeDiff / (1000 * 60 * 60 * 24)), timeDiff = dueDate - now
DaysDiffFloor(due, now) == (due - now) \div MsPerDay

DaysDiff(due, now) == -((now - due) \div MsPerDay)

\* `if (task.dueDate)` and `if (daysDiff <= 0 && !task.completed)`
ShouldNotify(task, now) ==
  task.dueDate # <<>> /\ DaysDiff(task.dueDate[1], now) <= 0 /\ ~task.completed

\* the notification showNotification is called with for a task
Notification(task, now) ==
  [title |-> "TaskFlow - Task Due!", task |-> task.id,
   body |-> IF DaysDiff(task.dueDate[1], now) = 0 THEN "due today" ELSE "overdue",
   tag |-> <<"task", task.id>>]

\* the forEach over the tasks: the notifications shown, until reading a
\* property of a task that is not an object throws
RECURSIVE Remind(_, _)
Remind(tasks, now) ==
  IF tasks = <<>>
    THEN [notified |-> <<>>, error |-> "none"]
    ELSE LET t == Head(tasks)
         IN IF ~t.valid
              THEN [notified |-> <<>>, error |-> "task"]
              ELSE LET rest == Remind(Tail(tasks), now)
                   IN [notified |-> (IF ShouldNotify(t, now)
                                       THEN <<Notification(t, now)>> ELSE <<>>)
                                      \o rest.notified,
                       error |-> rest.error]

\* `if (response)`
HasSnapshotAlways(resp) == TRUE

HasSnapshot(resp) == resp # NoResponse

\* response.json() rejects on a body that is not JSON text
ParseFails(resp) == resp.body = 0

\* checkTaskReminders, after caches.open resolved: names and ents are the
\* store then. fault is "match" when cache.match rejects.
checkTaskReminders(names, ents, now, fault) ==
  LET resp == CacheMatch(names, ents, DATA_CACHE_NAME, TasksData)
  IN IF fault = "match"
       THEN [snap |-> NoResponse, notified |-> <<>>, error |-> "match"]
       ELSE IF ~HasSnapshot(resp)
         THEN [snap |-> resp, notified |-> <<>>, error |-> "none"]
         ELSE IF ParseFails(resp)
           THEN [snap |-> resp, notified |-> <<>>, error |-> "json"]
           ELSE LET r == Remind(Flat(Values(SnapshotOf(resp.body))), now)
                IN [snap |-> resp, notified |-> r.notified, error |-> r.error]

\* the periodicsync event. now is what `new Date()` returns; fault is "open"
\* or "match" when caches.open or cache.match rejects.
PeriodicSync(tag, now, fault) ==
  /\ lifecycle = "activated"
  /\ fault \in {"none", "open", "match"}
  /\ IF PeriodicTag(tag) /\ fault # "open"
       THEN /\ cacheNames' = Open(cacheNames, DATA_CACHE_NAME)
            /\ LET r == checkTaskReminders(cacheNames', entries, now, fault)
               IN out' = [NoOut EXCEPT !.handler = "periodicsync", !.tag = tag,
                                       !.now = now, !.snap = r.snap,
                                       !.before = <<cacheNames, entries>>,
                                       !.notified = r.notified, !.error = r.error,
                                       !.settled = PassSettles(r.error)]
       ELSE /\ UNCHANGED cacheNames
            /\ out' = IF PeriodicTag(tag)
                        THEN [NoOut EXCEPT !.handler = "periodicsync", !.tag = tag,
                                           !.now = now,
                                           !.before = <<cacheNames, entries>>,
                                           !.error = fault,
                                           !.settled = PassSettles(fault)]
                        ELSE [NoOut EXCEPT !.handler = "periodicsync", !.tag = tag,
                                           !.before = <<cacheNames, entries>>]
  /\ result' = NoAnswer
  /\ UNCHANGED <<entries, lifecycle, installPc, activatePc, toDelete, activations,
                 deleted, skipWaiting, claimed, req, pending, lastSnapshot>>

\* ------------------------------------------------------------ push (sw.js 120-148)
\* data is <<>> when the push carries no payload, <<text>> otherwise
Push(data) ==
  /\ lifecycle = "activated"
  /\ out' = [NoOut EXCEPT !.handler = "push",
                          !.before = <<cacheNames, entries>>,
                          !.notified = <<[title |-> "TaskFlow Reminder", task |-> 0,
                                          body |-> IF data = <<>>
                                                     THEN "You have tasks due soon!"
                                                     ELSE data[1],
                                          tag |-> <<>>]>>,
                          !.settled = "resolved"]
  /\ result' = NoAnswer
  /\ UNCHANGED <<cacheNames, entries, lifecycle, installPc, activatePc, toDelete,
                 activations, deleted, skipWaiting, claimed, req, pending, lastSnapshot>>

\* ------------------------------------------------------------ notificationclick (sw.js 151-178)
\* `client.url === '/' && 'focus' in client`: every window client has focus()
ShowsApp(client) == client.url = Root

\* the first client of the list the loop returns client.focus() for
FocusTarget(cl) ==
  LET hits == {i \in 1..Len(cl) : ShowsApp(cl[i])}
  IN IF hits = {} THEN <<>> ELSE <<cl[CHOOSE k \in hits : \A j \in hits : k <= j].id>>

\* the notificationclick event. action is the button pressed ("" for the
\* notification itself); cl is what clients.matchAll({type: 'window',
\* includeUncontrolled: true}) resolves with.
NotificationClick(action, cl) ==
  /\ lifecycle = "activated"
  /\ out' = IF action = "view-tasks"
              THEN [NoOut EXCEPT !.handler = "notificationclick", !.tag = action,
                                 !.clients = cl, !.before = <<cacheNames, entries>>,
                                 !.closed = TRUE, !.focused = FocusTarget(cl),
                                 !.opened = IF FocusTarget(cl) = <<>> THEN <<Root>> ELSE <<>>,
                                 !.settled = "resolved"]
              ELSE [NoOut EXCEPT !.handler = "notificationclick", !.tag = action,
                                 !.before = <<cacheNames, entries>>,
                                 !.closed = TRUE]
  /\ result' = NoAnswer
  /\ UNCHANGED <<cacheNames, entries, lifecycle, installPc, activatePc, toDelete,
                 activations, deleted, skipWaiting, claimed, req, pending, lastSnapshot>>

Next ==
  \/ InstallOpen
  \/ InstallAddAll
  \/ InstallSkipWaiting
  \/ ActivateDispatch
  \/ ActivateKeys
  \/ \E n \in AllNames : ActivateDelete(n)
  \/ ActivateDone
  \/ \E r \in Requests : FetchStart(r)
  \/ \E o \in UNION {NetOutcomes(u) : u \in URLs} : FetchSettle(o)
  \/ \E m \in Messages : Message(m)
  \/ \E i \in 1..MaxPending : PendingStep(i)
  \/ Terminate

Spec == Init /\ [][Next]_vars

\* ------------------------------------------------------------ the message channel alone
\* the worker installed on a store s0 and activated, nothing in flight
Activated(s0) ==
  /\ cacheNames = Open(s0, CACHE_NAME)
  /\ entries = AddAll([n \in AllNames |-> IF Has(s0, n) THEN OldContent(n) ELSE EmptyCache],
                      CACHE_NAME, {})
  /\ lifecycle = "activated"
  /\ installPc = "done"
  /\ activatePc = "done"
  /\ toDelete = {}
  /\ activations = 1
  /\ deleted = {}
  /\ skipWaiting = TRUE
  /\ claimed = TRUE
  /\ req = NoReq
  /\ pending = <<>>
  /\ result = NoAnswer
  /\ out = NoOut

InitWork ==
  /\ \E s0 \in {<<>>, <<DATA_CACHE_NAME>>} : Activated(s0)
  /\ lastSnapshot = <<>>

WorkMessages == {[type |-> "CACHE_TASK_DATA", tasks |-> t] : t \in 0..MaxPayload}

WorkMessage(m) == MessageK(m, MaxWrites)

NextWork ==
  \/ \E m \in WorkMessages : WorkMessage(m)
  \/ \E i \in 1..MaxWrites : PendingStep(i)
  \/ Terminate

SpecWork == InitWork /\ [][NextWork]_vars

\* ------------------------------------------------------------ the deferred-work events alone
\* the activated worker, the snapshot of an earlier CACHE_TASK_DATA message
\* stored or none
InitEvents ==
  \E s0 \in {<<>>, <<DATA_CACHE_NAME>>} : \E s \in -1..MaxPayload :
    /\ lifecycle = "activated"
    /\ installPc = "done"
    /\ activatePc = "done"
    /\ toDelete = {}
    /\ activations = 1
    /\ deleted = {}
    /\ skipWaiting = TRUE
    /\ claimed = TRUE
    /\ req = NoReq
    /\ pending = <<>>
    /\ result = NoAnswer
    /\ out = NoOut
    /\ LET names == Open(s0, CACHE_NAME)
           ents == AddAll([n \in AllNames |->
                             IF Has(s0, n) THEN OldContent(n) ELSE EmptyCache],
                          CACHE_NAME, {})
       IN IF s < 0
            THEN cacheNames = names /\ entries = ents /\ lastSnapshot = <<>>
            ELSE /\ cacheNames = Open(names, DATA_CACHE_NAME)
                 /\ entries = Put(cacheNames, ents, DATA_CACHE_NAME, TasksData,
                                  SnapshotResponse(s))
                 /\ lastSnapshot = <<s>>

SyncTags == {"background-sync-tasks", "other-sync"}
PeriodicTags == {"task-reminders", "other-periodic"}
Actions == {"view-tasks", "dismiss", ""}

NextEvents ==
  \/ \E tag \in SyncTags, cl \in ClientLists, fault \in {"none", "matchAll"} :
       Sync(tag, cl, fault)
  \/ \E tag \in PeriodicTags, now \in Nows, fault \in {"none", "open", "match"} :
       PeriodicSync(tag, now, fault)
  \/ \E data \in {<<>>, <<"text">>} : Push(data)
  \/ \E action \in Actions, cl \in ClientLists : NotificationClick(action, cl)

SpecEvents == InitEvents /\ [][NextEvents]_vars

\* ------------------------------------------------------------ properties
\* a request for the reserved data path, as the specification words it
ReservedPath(u) == Len(u) >= 2 /\ u[1] = "api"

Answered == result # NoAnswer

DataEntry(u) == CacheMatch(cacheNames, entries, DATA_CACHE_NAME, u)

\* C1: when a DATA request whose fetch succeeded with status 200 has been
\* answered, the answer is the network response and the DATA generation
\* holds that response under the request's identity (so that a following
\* identical request whose fetch fails is answered with it).
C1_DataRoundTrip ==
  (Answered /\ ReservedPath(result.url) /\ result.outcome = "ok"
     /\ result.netResp.status = StatusOK)
    => /\ result.resp = result.netResp
       /\ DataEntry(result.url) = result.netResp

\* C2: a SHELL request whose identity has a stored entry is answered with a
\* stored entry of that identity and never reaches the network.
C2_ShellCacheWins ==
  /\ (Answered /\ ~ReservedPath(result.url) /\ result.stored)
       => /\ result.net = 0
          /\ result.from = "cache"
          /\ result.resp # NoResponse
          /\ \E n \in Range(cacheNames) : entries[n][result.url] = result.resp
  /\ ~(req # NoReq /\ ~ReservedPath(req.url) /\ req.stored)

C2_Witness ==
  /\ result.url = IndexHtml
  /\ result.stored
  /\ result.from = "cache"
  /\ result.gen = CACHE_NAME
  /\ result.net = 0

\* C3: a DATA request with no entry in the DATA generation whose fetch fails
\* is answered with absence, whatever the other generations and the other
\* keys of the DATA generation hold.
C3_DataAbsence ==
  (Answered /\ ReservedPath(result.url) /\ result.outcome = "fail" /\ ~result.stored)
    => /\ result.resp = NoResponse
       /\ result.from = "absent"
       /\ result.gen = "none"

C3_Witness ==
  /\ ReservedPath(result.url)
  /\ result.outcome = "fail"
  /\ ~result.stored
  /\ result.resp = NoResponse
  /\ \E n \in Range(cacheNames) \ {DATA_CACHE_NAME} : entries[n][result.url] # NoResponse
  /\ DataEntry(TasksData) # NoResponse

\* C4: a SHELL request with no stored entry is answered, when its fetch
\* fails, with the cached /index.html if it is a navigation and with
\* absence otherwise; when its fetch succeeds, with the live response.
C4_ShellFallback ==
  (Answered /\ ~ReservedPath(result.url) /\ ~result.stored)
    => /\ result.net = 1
       /\ result.outcome = "ok"
            => result.resp = result.netResp /\ result.from = "network"
       /\ (result.outcome = "fail" /\ result.mode = "navigate")
            => /\ result.from = "fallback"
               /\ result.resp # NoResponse
               /\ result.resp.url = IndexHtml
               /\ \E n \in Range(cacheNames) : entries[n][IndexHtml] = result.resp
       /\ (result.outcome = "fail" /\ result.mode # "navigate")
            => result.resp = NoResponse /\ result.from = "absent"

C4_Witness ==
  /\ result.url = About
  /\ ~result.stored
  /\ result.outcome = "fail"
  /\ result.from = "fallback"
  /\ result.resp.url = IndexHtml

\* C5: every answer the router serves from the cache to a SHELL request, a
\* direct hit or the navigation fallback, is an entry of the current SHELL
\* generation.
C5_ShellGenerationOnly ==
  (Answered /\ ~ReservedPath(result.url) /\ result.from \in {"cache", "fallback"})
    => result.gen = CACHE_NAME

\* C6: a request for the reserved data path goes to the network first and is
\* answered from the network or from the DATA generation only, never from
\* an entry of the SHELL generation (or of any other generation).
C6_DataNeverShell ==
  (Answered /\ ReservedPath(result.url))
    => /\ result.net = 1
       /\ result.gen \in {"none", DATA_CACHE_NAME}
       /\ result.from = "cache" => result.resp = DataEntry(result.url)
       /\ result.from = "network" => result.resp = result.netResp

C6_Witness ==
  /\ ReservedPath(result.url)
  /\ result.outcome = "fail"
  /\ CacheMatch(cacheNames, entries, CACHE_NAME, result.url) # NoResponse
  /\ result.gen = "none"
  /\ result.resp = NoResponse

\* C7: no step, and so no step of the activate sweep, removes the cache
\* named CACHE_NAME or the cache named DATA_CACHE_NAME or any entry of them,
\* whatever names the store holds and in whatever order.
C7_SweepKeepsCurrent ==
  [][ \A n \in {CACHE_NAME, DATA_CACHE_NAME} :
        Has(cacheNames, n)
          => /\ Has(cacheNames', n)
             /\ \A u \in URLs : entries[n][u] # NoResponse => entries'[n][u] # NoResponse
    ]_vars

C7_Witness ==
  /\ activatePc = "done"
  /\ deleted # {}
  /\ Has(cacheNames, CACHE_NAME)
  /\ entries[CACHE_NAME][ApiTasks] # NoResponse
  /\ Has(cacheNames, DATA_CACHE_NAME)

\* C8: once the sweep of activate has completed, the names of the store are
\* among CACHE_NAME and DATA_CACHE_NAME, also with requests and snapshot
\* writes interleaved with the sweep.
C8_SweepComplete ==
  activatePc = "done" => Range(cacheNames) \subseteq {CACHE_NAME, DATA_CACHE_NAME}

C8_Witness ==
  /\ activatePc = "done"
  /\ Cardinality(deleted) >= 2
  /\ DataEntry(TasksData) # NoResponse

\* C9: a second run of activate, with no install in between, deletes
\* nothing: every step of it leaves the caches and their entries as the
\* first run left them.
C9_ActivateIdempotent ==
  [][ (activations >= 2 /\ (activatePc' # activatePc \/ toDelete' # toDelete))
        => /\ UNCHANGED <<cacheNames, entries>>
           /\ toDelete' = {}
    ]_vars

C9_Witness ==
  /\ activations = 2
  /\ activatePc = "done"
  /\ deleted # {}

\* C10: install is all-or-nothing. The step in which addAll fails stores
\* nothing and does not call skipWaiting; a failed install is never
\* activated; skipWaiting is called by the install handler, and the worker
\* is installed and activated, only with every file of FILES_TO_CACHE stored.
AssetsStored ==
  \A f \in FilesSet : CacheMatch(cacheNames, entries, CACHE_NAME, f) # NoResponse

PassRan == out.handler = "periodicsync" /\ PeriodicTag(out.tag)

\* it read a snapshot that parsed and whose records are all objects
PassRead == PassRan /\ out.snap # NoResponse /\ out.error = "none"

\* the tasks of the snapshot the pass read, all groups flattened in order
PassTasks == Flat(Values(SnapshotOf(out.snap.body)))

\* the calendar day of an instant
DayOf(t) == t \div MsPerDay

\* the notifications of the pass for a task
NotifiedFor(task) == {k \in 1..Len(out.notified) : out.notified[k].task = task.id}

\* C11: in a periodic pass, a task that is not completed and whose due
\* instant lies on the calendar day of `now` (also later on that day, as
\* 23:59 for a pass at 00:00) is notified as due today, one due on an
\* earlier day is notified as overdue, and one due on a later day is not
\* notified.
C11_DueToday ==
  PassRead =>
    \A i \in 1..Len(PassTasks) :
      LET t == PassTasks[i]
      IN (t.dueDate # <<>> /\ ~t.completed) =>
           IF DayOf(t.dueDate[1]) = DayOf(out.now)
             THEN \E k \in NotifiedFor(t) : out.notified[k].body = "due today"
             ELSE IF DayOf(t.dueDate[1]) < DayOf(out.now)
               THEN \E k \in NotifiedFor(t) : out.notified[k].body = "overdue"
               ELSE NotifiedFor(t) = {}

\* the difference of two instants in whole days, rounded up
RoundedUpDays(d) == CHOOSE k \in -20..20 : (k - 1) * MsPerDay < d /\ d <= k * MsPerDay

\* the task is one the engine must notify
Due(task, now) ==
  task.dueDate # <<>> /\ ~task.completed /\ RoundedUpDays(task.dueDate[1] - now) <= 0

\* C12: one periodic pass raises exactly one notification, tagged task-<id>,
\* for each task of the snapshot (all groups flattened, in order) that has a
\* due date, is not completed and whose rounded-up whole-day difference to
\* now is at most 0, and none for any other task; the snapshot
\* {work: [{id: 1, dueDate: 2024-01-01, completed: false}]} checked on
\* 2024-01-05 yields exactly one notification, tagged task-1; an event with
\* another tag raises none.
C12_OneNotificationPerDueTask ==
  /\ PassRead =>
       /\ \A i \in 1..Len(PassTasks) :
            Cardinality(NotifiedFor(PassTasks[i]))
              = IF Due(PassTasks[i], out.now) THEN 1 ELSE 0
       /\ \A k \in 1..Len(out.notified) :
            /\ out.notified[k].tag = <<"task", out.notified[k].task>>
            /\ \E i \in 1..Len(PassTasks) : PassTasks[i].id = out.notified[k].task
       /\ \A k, l \in 1..Len(out.notified) :
            k < l => \E i, j \in 1..Len(PassTasks) :
                       /\ i < j
                       /\ PassTasks[i].id = out.notified[k].task
                       /\ PassTasks[j].id = out.notified[l].task
  /\ (PassRead /\ out.snap.body = 1 /\ out.now = At(5, 0, 0)) =>
       /\ Len(out.notified) = 1
       /\ out.notified[1].tag = <<"task", 1>>
  /\ (out.handler = "periodicsync" /\ ~PeriodicTag(out.tag)) => out.notified = <<>>

C12_Witness ==
  /\ PassRead
  /\ out.snap.body = 2
  /\ out.now = At(10, 12, 0)
  /\ Len(out.notified) = 2

\* ------------------------------------------------------------ properties of the snapshot writes
\* C13: when CACHE_TASK_DATA messages have been received and their writes
\* have completed, the snapshot stored under /tasks-data is exactly the one
\* of the last message received (of S1 then S2: S2, never S1).
C13_LastSnapshotWins ==
  (lastSnapshot # <<>> /\ SnapshotWrites(pending) = {})
    => DataEntry(TasksData) = SnapshotResponse(lastSnapshot[1])

\* C13, amended: the stored snapshot is always the whole snapshot of one
\* message; it changes only when the cache.put of a received message
\* completes, which replaces it by that message's snapshot (the write that
\* completes last wins, whichever message was received last) and changes no
\* other entry and no generation.
C13_SnapshotReplacedWhole ==
  /\ [](DataEntry(TasksData) \in {NoResponse} \cup {SnapshotResponse(t) : t \in 0..MaxPayload})
  /\ [][entries' # entries =>
          \E i \in SnapshotWrites(pending) :
            /\ pending[i].op = "put"
            /\ entries' = [entries EXCEPT ![DATA_CACHE_NAME][TasksData] = pending[i].resp]
            /\ cacheNames' = cacheNames]_vars
  /\ [][cacheNames' # cacheNames =>
          /\ cacheNames' = Append(cacheNames, DATA_CACHE_NAME)
          /\ entries' = entries]_vars

C13_Witness ==
  /\ lastSnapshot = <<2>>
  /\ pending = <<>>
  /\ DataEntry(TasksData) = SnapshotResponse(1)

\* ------------------------------------------------------------ properties of the passes
\* the stored snapshot before the handler ran
SnapshotBefore == CacheMatch(out.before[1], out.before[2], DATA_CACHE_NAME, TasksData)

\* the platform failed the pass: caches.open or cache.match rejected
PlatformFault == out.error \in {"open", "match"}

\* C14: a periodic pass that finds no snapshot in the DATA generation is a
\* silent no-op: no notification, no error, and the cache store is as it
\* was before the pass.
C14_SilentNoOp ==
  (PassRan /\ ~PlatformFault /\ SnapshotBefore = NoResponse)
    => /\ out.notified = <<>>
       /\ out.error = "none"
       /\ out.settled = "resolved"
       /\ <<cacheNames, entries>> = out.before

\* C14, amended: such a pass shows no notification, raises no error and
\* changes no entry of the store; it creates the DATA generation, empty,
\* when the store has none.
C14_SilentNoOpCreatesData ==
  (PassRan /\ ~PlatformFault /\ SnapshotBefore = NoResponse)
    => /\ out.notified = <<>>
       /\ out.error = "none"
       /\ out.settled = "resolved"
       /\ entries = out.before[2]
       /\ cacheNames = Open(out.before[1], DATA_CACHE_NAME)

C14_Witness ==
  /\ PassRan
  /\ ~PlatformFault
  /\ ~Has(out.before[1], DATA_CACHE_NAME)
  /\ Has(cacheNames, DATA_CACHE_NAME)
  /\ out.notified = <<>>

\* the messages of this step sent to a client
PostedTo(c) == {k \in 1..Len(out.posted) : out.posted[k].client = c.id}

\* C15: a sync event with the tag background-sync-tasks sends exactly one
\* SYNC_COMPLETE message to every client of the enumerated client set and to
\* no other client (none to a client that connects after the enumeration);
\* a sync event with any other tag sends no message.
C15_SyncBroadcast ==
  out.handler = "sync" =>
    IF out.tag = "background-sync-tasks" /\ out.error = "none"
      THEN /\ \A c \in Clients :
                Cardinality(PostedTo(c)) = IF c \in Range(out.clients) THEN 1 ELSE 0
           /\ \A k \in 1..Len(out.posted) : out.posted[k].type = "SYNC_COMPLETE"
           /\ Len(out.posted) = Len(out.clients)
      ELSE out.posted = <<>>

C15_Witness ==
  /\ out.handler = "sync"
  /\ out.tag = "background-sync-tasks"
  /\ Len(out.clients) = 2
  /\ Len(out.posted) = 2

\* C18: an error inside a sync pass or a periodic pass (the client
\* enumeration fails, the snapshot cannot be read or parsed, a task record
\* is malformed) is caught inside the pass: the promise given to waitUntil
\* still resolves, the cache store is as it was before the pass, and the
\* worker goes on handling events.
C18_ErrorsContained ==
  (out.handler \in {"sync", "periodicsync"} /\ out.error # "none")
    => /\ out.settled = "resolved"
       /\ <<cacheNames, entries>> = out.before
       /\ lifecycle = "activated"
       /\ out.posted = <<>>

\* C18, amended: the error is caught, the promise given to waitUntil
\* resolves, no entry of the store is changed and the worker goes on
\* handling events; a periodic pass that fails after caches.open has created
\* the DATA generation, empty, when the store had none.
C18_ErrorsContainedEntries ==
  (out.handler \in {"sync", "periodicsync"} /\ out.error # "none")
    => /\ out.settled = "resolved"
       /\ entries = out.before[2]
       /\ cacheNames \in {out.before[1], Open(out.before[1], DATA_CACHE_NAME)}
       /\ out.handler = "sync" => cacheNames = out.before[1]
       /\ out.error = "open" => cacheNames = out.before[1]
       /\ lifecycle = "activated"
       /\ out.posted = <<>>
       /\ ENABLED NextEvents

C18_Witness ==
  /\ out.handler = "periodicsync"
  /\ out.error = "task"
  /\ Len(out.notified) = 1
  /\ out.settled = "resolved"

\* a client window that shows the root view
ShowsRoot(c) == c.url = Abs(Root)

\* C19: a notification click always closes the notification; any action
\* other than view-tasks has no further effect; view-tasks focuses an open
\* window showing the root view when there is one and opens no window, and
\* otherwise opens exactly one window at the root.
C19_ClickFocusesOrOpens ==
  out.handler = "notificationclick" =>
    /\ out.closed
    /\ out.tag # "view-tasks" => out.focused = <<>> /\ out.opened = <<>>
    /\ out.tag = "view-tasks" =>
         IF \E i \in 1..Len(out.clients) : ShowsRoot(out.clients[i])
           THEN /\ Len(out.focused) = 1
                /\ \E i \in 1..Len(out.clients) :
                     ShowsRoot(out.clients[i]) /\ out.clients[i].id = out.focused[1]
                /\ out.opened = <<>>
           ELSE out.focused = <<>> /\ out.opened = <<Root>>

\* ------------------------------------------------------------ properties of the lifecycle and the keep-alive
\* C16: clients are claimed only after the sweep has completed: no client is
\* claimed while a generation other than the two current ones exists.
C16_ClaimAfterSweep ==
  claimed => \A n \in Range(cacheNames) : n \in {CACHE_NAME, DATA_CACHE_NAME}

\* C17: a handler's keep-alive does not end before every cache write it
\* started has completed: while a cache operation is in flight some promise
\* given to waitUntil or respondWith is unsettled in the activated worker,
\* so the runtime never stops the worker with a write in flight.
C17_KeepAliveCoversWrites == (lifecycle = "activated" /\ pending # <<>>) => KeepAlive

\* C20: a DATA request the network answers with a status other than 200 is
\* answered with that response, stores nothing and leaves the store as it
\* was; an entry of the DATA generation is only created or replaced by a
\* status-200 response to a request for its identity or by the snapshot of a
\* CACHE_TASK_DATA message.
C20_OnlySuccessStored ==
  /\ [][(result' # NoAnswer /\ ReservedPath(result'.url) /\ result'.outcome = "ok"
           /\ result'.netResp.status # StatusOK)
          => /\ result'.resp = result'.netResp
             /\ result'.from = "network"
             /\ pending' = pending
             /\ entries' = entries
             /\ cacheNames' = cacheNames]_vars
  /\ [][\A u \in URLs :
          LET e == entries'[DATA_CACHE_NAME][u]
          IN (e # entries[DATA_CACHE_NAME][u] /\ e # NoResponse)
               => \/ ReservedPath(u) /\ e.url = u /\ e.status = StatusOK
                  \/ u = TasksData /\ e \in {SnapshotResponse(t) : t \in 0..MaxPayload}]_vars
  /\ [](\A i \in 1..Len(pending) :
          \/ pending[i].resp.url = pending[i].key /\ pending[i].resp.status = StatusOK
          \/ pending[i].key = TasksData /\ pending[i].resp.url = <<>>)

C20_Witness ==
  /\ Answered
  /\ ReservedPath(result.url)
  /\ result.outcome = "ok"
  /\ result.netResp.status = 404
  /\ result.resp = result.netResp
  /\ DataEntry(result.url) # NoResponse
  /\ DataEntry(result.url) # result.netResp

====
